---- MODULE Spec2Model ----
(***************************************************************************)
(* Model of the purchase funnel of the parfum bot (second variant of       *)
(* internal/handler/handler.go, lines 1594-4217): the conversation state   *)
(* kept in Redis, the loto/client/orders/money tables, and the handlers    *)
(* BuyParfumeHandler, CountHandler, DefaultHandler, PaidHandler and        *)
(* ShareContactCallbackHandler.  Every update is processed by a goroutine  *)
(* of its own, so a handler execution is a process (a worker) that takes   *)
(* one step per access to a shared store; the local computation between    *)
(* two accesses belongs to the step of the access before it.               *)
(*                                                                         *)
(* Strings that the code parses are tuples of one-character strings.  A    *)
(* Go int that comes out of strconv.Atoi is kept as its canonical decimal  *)
(* expansion (a tuple of digits 0..9 without leading zeros), because the   *)
(* configured issuer identifiers have 11 and 12 digits and do not fit the  *)
(* 32-bit integers of the model checker; Value turns an expansion into an  *)
(* integer where the code does arithmetic on it.                           *)
(***************************************************************************)
EXTENDS Integers, Sequences, FiniteSets, TLC

\* ------------------------------------------------------------------ bounds
MaxUpdates == 4
MaxFaults == 1
NumLotoIds == 3
MaxSequence == 1200
MaxRawLen == 3
MaxOutputLen == 3
MaxListLen == 2

\* --------------------------------------------------------------- constants
StateStart == "state_start"
StateDefault == "state_default"
StateCount == "state_count"
StatePay == "state_pay"
StateContact == "state_contact"

Cost == 18900

\* issuer allow-list of config.NewConfig, as decimal expansions
Bin == <<8, 7, 0, 3, 0, 4, 3, 0, 1, 2, 0, 9>>
Bin2 == <<6, 0, 3, 0, 1, 5, 5, 1, 7, 2, 8>>
Bin3 == <<1, 1, 2, 2, 5, 6, 0, 0, 0, 9, 7>>
Bin4 == <<1, 0, 5, 1, 4, 5, 5, 1, 3, 6, 0>>
Bin5 == <<9, 8, 0, 5, 1, 7, 4, 5, 1, 2, 6, 2>>

\* rand.Intn(90000000) + 10000000 draws from LotoIdMin .. LotoIdMax
LotoIdMin == 10000000
LotoIdMax == 99999999

\* the literal "Платеж успешно совершен" that result[0] is compared with
SuccessMarker == <<"P", "a", "i", "d">>

\* ----------------------------------------------------------- pure helpers
DigitChars == {"0", "1", "2", "3", "4", "5", "6", "7", "8", "9"}

DigitVal(c) ==
    CASE c = "0" -> 0 [] c = "1" -> 1 [] c = "2" -> 2 [] c = "3" -> 3
      [] c = "4" -> 4 [] c = "5" -> 5 [] c = "6" -> 6 [] c = "7" -> 7
      [] c = "8" -> 8 [] c = "9" -> 9

IsDigit(c) == c \in DigitChars

\* variant: only the digits before the first other character are kept
StripNonDigits_LeadingRun(raw) ==
    IF \E i \in 1..Len(raw) : ~IsDigit(raw[i])
    THEN SubSeq(raw, 1, (CHOOSE i \in 1..Len(raw) :
                            /\ ~IsDigit(raw[i])
                            /\ \A j \in 1..(i - 1) : IsDigit(raw[j])) - 1)
    ELSE raw

\* regexp \D+ replaced by "": the digit characters of raw, in order
StripNonDigits(raw) == SelectSeq(raw, IsDigit)

RECURSIVE StripLeadingZeros(_)
StripLeadingZeros(ds) ==
    IF Len(ds) <= 1 THEN ds
    ELSE IF ds[1] = 0 THEN StripLeadingZeros(Tail(ds)) ELSE ds

\* strconv.Atoi on a non-empty digit string: the integer, as its expansion
Atoi(digits) == StripLeadingZeros([i \in 1..Len(digits) |-> DigitVal(digits[i])])

RECURSIVE Value(_)
Value(dec) ==
    IF dec = <<>> THEN 0
    ELSE 10 * Value(SubSeq(dec, 1, Len(dec) - 1)) + dec[Len(dec)]

\* the largest int (64 bits): 9223372036854775807
MaxInt == <<9, 2, 2, 3, 3, 7, 2, 0, 3, 6, 8, 5, 4, 7, 7, 5, 8, 0, 7>>

\* a > b for decimal expansions of the same length
RECURSIVE DecGreater(_, _)
DecGreater(a, b) ==
    IF a = <<>> THEN FALSE
    ELSE IF a[1] # b[1] THEN a[1] > b[1]
    ELSE DecGreater(Tail(a), Tail(b))

\* strconv.Atoi fails with a range error on a value beyond the int width
OutOfRange(dec) ==
    \/ Len(dec) > Len(MaxInt)
    \/ Len(dec) = Len(MaxInt) /\ DecGreater(dec, MaxInt)

\* service.ParsePrice: (0, error) when raw holds no digit; otherwise what
\* strconv.Atoi returns, which is (MaxInt, error) beyond the int width
ParsePrice(raw) ==
    LET digits == StripNonDigits(raw) IN
    IF digits = <<>> THEN [err |-> TRUE, val |-> <<0>>]
    ELSE IF OutOfRange(Atoi(digits)) THEN [err |-> TRUE, val |-> MaxInt]
    ELSE [err |-> FALSE, val |-> Atoi(digits)]

\* prize tiers
PrizeMoney == "money"
PrizeDiamond == "diamond_ring"
Prize30ML == "parfum_30ml"
Prize10ML == "parfum_10ml"

\* diamondPositions of DeterminePrize
DiamondPositions == {50, 150, 250, 350, 450, 550, 650, 750, 850, 950}

\* variant: the 30ml rule is tried before the list of diamond positions
DeterminePrize_ThirtyBeforeList(orderSequence) ==
    IF orderSequence % 200 = 0 THEN PrizeMoney
    ELSE IF orderSequence % 100 = 0 THEN PrizeDiamond
    ELSE IF orderSequence % 30 = 0 THEN Prize30ML
    ELSE IF orderSequence \in DiamondPositions THEN PrizeDiamond
    ELSE Prize10ML

\* Handler.DeterminePrize
DeterminePrize(orderSequence) ==
    IF orderSequence % 200 = 0 THEN PrizeMoney
    ELSE IF orderSequence % 100 = 0 /\ orderSequence % 200 # 0 THEN PrizeDiamond
    ELSE IF orderSequence \in DiamondPositions THEN PrizeDiamond
    ELSE IF /\ orderSequence % 30 = 0
            /\ orderSequence % 200 # 0 /\ orderSequence % 100 # 0
            /\ orderSequence \notin DiamondPositions
         THEN Prize30ML
    ELSE Prize10ML

\* variant: the issuer comparison of Validator is left out
Validator_NoBinCheck(total, actualPrice, bin) ==
    IF actualPrice # total * Cost THEN "ErrWrongPrice" ELSE "nil"

\* service.Validator on PdfResult{Total, ActualPrice, Bin}
Validator(total, actualPrice, bin) ==
    IF actualPrice # total * Cost THEN "ErrWrongPrice"
    ELSE IF bin # Bin /\ bin # Bin2 /\ bin # Bin3 /\ bin # Bin4 /\ bin # Bin5
         THEN "ErrWrongBin"
         ELSE "nil"

\* variant: the band is normalised to the unit cost, as the list willBePrice
\* of the first PaidHandler of handler.go (lines 421-427) does with its amounts
SnapPrice_ToCost(actualPrice) ==
    IF actualPrice \in 2400..2499 THEN Cost ELSE actualPrice

\* the loop "for i := 2400; i < 2500; i++ { if actualPrice == i {...2499} }"
SnapPrice(actualPrice) ==
    IF actualPrice \in 2400..2499 THEN 2499 ELSE actualPrice

\* totalPrice := state.Count * h.cfg.Cost
TotalPrice(count) == count * Cost

\* variant: the predicted quantity rounded up instead of truncated
PredictedCount_RoundsUp(actualPrice) == (actualPrice + Cost - 1) \div Cost

\* predictedCount := actualPrice / h.cfg.Cost (amounts are never negative)
PredictedCount(actualPrice) == actualPrice \div Cost

\* "if totalPrice != actualPrice { send textPrice; return }"
PriceMismatch(totalPrice, actualPrice) == totalPrice # actualPrice

\* variant: "if !ok { already used; return }", the sense of the first
\* PaidHandler of handler.go (line 370)
GuardRejects_Inverted(ok) == ~ok

\* "if ok { already used; return }" on the result of IsUniqueQr
GuardRejects(ok) == ok


\* ------------------------------------------------------------------ inputs
Users == {1, 2}
Workers == {1, 2}

\* callback data count_k of the quantity keyboard (k in 1..30)
Counts == {1, 5}

\* Contact.PhoneNumber of a contact message
Phone == "+7701"

\* field strings of receipts (the sign for tenge is written T)
Header == <<"K", "a", "s", "p", "i">>
DateLine == <<"0", "1", ".", "1", "1">>
Amount18900 == <<"1", "8", " ", "9", "0", "0", " ", "T">>
Amount94500 == <<"9", "4", ",", "5", "0", "0", " ", "T">>
Amount50000 == <<"5", "0", " ", "0", "0", "0">>
Amount94999 == <<"9", "4", " ", "9", "9", "9", " ", "T">>
Amount2450 == <<"2", " ", "4", "5", "0", " ", "T">>
AmountNone == <<"-", "T">>
QrA == <<"Q", "R", "-", "A">>
QrB == <<"Q", "R", "-", "B">>
QrC == <<"Q", "R", "-", "C">>
BinField == <<"8", "7", "0", "3", "0", "4", "3", "0", "1", "2", "0", "9">>
Bin2Field == <<"I", "D", ":", "0", "6", "0", "3", "0", "1", "5", "5", "1", "7", "2", "8">>
BadBinField == <<"1", "2", "3">>

\* what service.ReadPDF can hand to PaidHandler (<<>> when it fails)
Receipts ==
    { <<>>,
      <<Header, DateLine, Amount18900>>,
      <<Header, DateLine, Amount18900, QrA, BinField>>,
      <<SuccessMarker, Amount18900, QrA, BinField, DateLine>>,
      <<Header, DateLine, Amount18900, QrB, Bin2Field>>,
      <<SuccessMarker, Amount94500, QrB, BinField>>,
      <<Header, DateLine, Amount94500, QrB, BadBinField>>,
      <<Header, DateLine, Amount50000, QrA, BinField>>,
      <<Header, DateLine, Amount94999, QrA, BinField>>,
      <<Header, DateLine, Amount2450, QrA, BinField>>,
      <<Header, DateLine, AmountNone, QrA, BinField>> }

\* message updates: text, contact, a document that is no PDF, a PDF receipt
MessageUpdates ==
    { [doc |-> FALSE, pdf |-> FALSE, contact |-> FALSE, result |-> <<>>],
      [doc |-> FALSE, pdf |-> FALSE, contact |-> TRUE, result |-> <<>>],
      [doc |-> TRUE, pdf |-> FALSE, contact |-> FALSE, result |-> <<>>] }
    \cup { [doc |-> TRUE, pdf |-> TRUE, contact |-> FALSE, result |-> r] : r \in Receipts }

LotoIds == (LotoIdMin .. (LotoIdMin + NumLotoIds - 2)) \cup {LotoIdMax}

\* ------------------------------------------------------------------- state
VARIABLES
    redis,      \* user_state:<id> keys of the ephemeral store
    loto,       \* rows of table loto
    money,      \* money.sum of the row id = 1
    clients,    \* rows of table client
    orders,     \* rows of table orders, in insertion order
    worker,     \* the handler executions in flight
    nUpdates,   \* number of updates and requests received so far
    nFaults,    \* number of store errors and key expiries so far
    lastOrderId, \* sqlite_sequence of table orders (id is AUTOINCREMENT)
    lastSeq,    \* the last order sequence number persistence has assigned
    spin,       \* the SpinWheel requests in flight
    call,       \* an application of a pure function: its input and result
    scenario    \* what the user of the funnel scenario chooses and uploads

vars == <<redis, loto, money, clients, orders, worker, nUpdates, nFaults,
          lastOrderId, lastSeq, spin, call, scenario>>

\* what the funnel handlers other than the order insert leave alone
wheelVars == <<lastOrderId, lastSeq, spin, call, scenario>>

\* GetUserState returns (nil, nil) for a missing key
NilState == [State |-> "nil", Count |-> 0, Contact |-> "", IsPaid |-> FALSE]

\* the default of getOrCreateUserState
StartState == [State |-> StateStart, Count |-> 0, Contact |-> "", IsPaid |-> FALSE]

\* variant: the purchase callback stores the stage state_default
BuyNewState_Default ==
    [State |-> StateDefault, Count |-> 0, Contact |-> "", IsPaid |-> FALSE]

\* newState of BuyParfumeHandler
BuyNewState == [State |-> StateCount, Count |-> 0, Contact |-> "", IsPaid |-> FALSE]

\* variant: the chosen quantity is not put into the new state
CountNewState_DropsCount(userCount) ==
    [State |-> StatePay, Count |-> 0, Contact |-> "", IsPaid |-> FALSE]

\* newState of CountHandler
CountNewState(userCount) ==
    [State |-> StatePay, Count |-> userCount, Contact |-> "", IsPaid |-> FALSE]

\* the state ShareContactCallbackHandler uses when the read fails
ContactFallbackState == [State |-> StateContact, Count |-> 1, Contact |-> "", IsPaid |-> TRUE]

NoReply == [kind |-> "none", predicted |-> 0, keyboard |-> FALSE]
Reply(k) == [kind |-> k, predicted |-> 0, keyboard |-> FALSE]

IdleWorker ==
    [pc |-> "idle", user |-> 1, doc |-> FALSE, pdf |-> FALSE, contact |-> FALSE,
     result |-> <<>>, state |-> NilState, qrPdf |-> <<>>, bin |-> <<0>>,
     actualPrice |-> 0, i |-> 0, outcome |-> "none", reply |-> NoReply,
     admin |-> 0]

\* a handler returns: outcome names the return taken, reply the message sent;
\* the locals of the execution are gone
Done(rec, outcome, reply) ==
    [IdleWorker EXCEPT !.pc = "done", !.user = rec.user, !.outcome = outcome,
                       !.reply = reply, !.admin = rec.admin]

\* SaveUserState: SET with a 24h expiry; the key is untouched on an error
SaveUserState(store, userId, state, ok) ==
    IF ok THEN [store EXCEPT ![userId] = state] ELSE store

\* DeleteUserState: DEL of the key
DeleteUserState(store, userId, ok) ==
    IF ok THEN [store EXCEPT ![userId] = NilState] ELSE store

\* SELECT COUNT(1) FROM loto WHERE qr = ?  ...  return cnt > 0
IsUniqueQr(rows, qr) == Cardinality({r \in rows : r.qr = qr}) > 0

\* INSERT OR REPLACE INTO loto under UNIQUE(id_user, id_loto)
InsertLoto(rows, e) ==
    {r \in rows : ~(r.id_user = e.id_user /\ r.id_loto = e.id_loto)} \cup {e}

\* variant: the identifier is stored without the offset of the 8-digit range
LotoEntry_NoOffset(userId, lotoId, qr) ==
    [id_user |-> userId, id_loto |-> lotoId - LotoIdMin, qr |-> qr, checks |-> FALSE]

\* domain.LotoEntry{UserID, LotoID, QR, Checks: false}
LotoEntry(userId, lotoId, qr) ==
    [id_user |-> userId, id_loto |-> lotoId, qr |-> qr, checks |-> FALSE]

\* no SpinWheel request: the locals of the handler at their zero values
IdleSpin ==
    [pc |-> "idle", user |-> 1, eligible |-> 0, orderSequence |-> 0,
     prizeWon |-> "", outcome |-> "none"]

\* no scenario is followed: updates come in any order
NoScenario == [count |-> 0, result |-> <<>>]

\* no application of a pure function under way
NoCall ==
    [fn |-> "none", n |-> 0, raw |-> <<>>, done |-> FALSE, prize |-> "",
     parsed |-> [err |-> FALSE, val |-> <<0>>],
     elements |-> <<>>, quote |-> "", list |-> [err |-> FALSE, fault |-> FALSE, lines |-> <<>>]]

\* the sequence number persistence assigns to a new order: the next one
AssignSequence(last) == last + 1

\* the row INSERT INTO orders creates: parfumes NULL, checks false, and in
\* seq the sequence number persistence keeps for the order; parfumes is the
\* list of "name: quantity" pairs, <<>> for NULL or the empty string
OrderRow(id, userId, quantity, seq) ==
    [id |-> id, id_user |-> userId, quantity |-> quantity, contact |-> "",
     parfumes |-> <<>>, gift |-> "", checks |-> FALSE, seq |-> seq]

Init ==
    /\ redis = [u \in Users |-> NilState]
    /\ loto = {}
    /\ money = 0
    /\ clients = {}
    /\ orders = <<>>
    /\ worker = [w \in Workers |-> IdleWorker]
    /\ nUpdates = 0
    /\ nFaults = 0
    /\ lastOrderId = 0
    /\ lastSeq = 0
    /\ spin = [w \in Workers |-> IdleSpin]
    /\ call = NoCall
    /\ scenario = NoScenario

Free(w) == worker[w].pc \in {"idle", "done"}

\* outcomes of a call to Redis or SQLite: TRUE, or an error while any is left
Oks == IF nFaults < MaxFaults THEN BOOLEAN ELSE {TRUE}
Fault(ok) == IF ok THEN 0 ELSE 1

\* ----------------------------------------------------- callback handlers
\* BuyParfumeHandler on callback data buy_parfume
BuyParfumeHandler(u) ==
    /\ nUpdates < MaxUpdates
    /\ nUpdates' = nUpdates + 1
    /\ \E ok \in Oks :
         /\ redis' = SaveUserState(redis, u, BuyNewState, ok)
         /\ nFaults' = nFaults + Fault(ok)
    /\ UNCHANGED <<loto, money, clients, orders, worker>>
    /\ UNCHANGED wheelVars

\* CountHandler on callback data count_<userCount>
CountHandler(u, userCount) ==
    /\ nUpdates < MaxUpdates
    /\ nUpdates' = nUpdates + 1
    /\ \E ok \in Oks :
         /\ redis' = SaveUserState(redis, u, CountNewState(userCount), ok)
         /\ nFaults' = nFaults + Fault(ok)
    /\ UNCHANGED <<loto, money, clients, orders, worker>>
    /\ UNCHANGED wheelVars

\* the key user_state:<id> reaches its 24h expiry
Expire(u) ==
    /\ nFaults < MaxFaults
    /\ redis[u] # NilState
    /\ redis' = [redis EXCEPT ![u] = NilState]
    /\ nFaults' = nFaults + 1
    /\ UNCHANGED <<loto, money, clients, orders, worker, nUpdates>>
    /\ UNCHANGED wheelVars

\* ------------------------------------------------------- DefaultHandler
\* variant: the dispatch without the return for out-of-band documents
Route_DispatchesDocuments(rec, userState) ==
    CASE userState.State = StateStart -> Done(rec, "start", Reply("promo"))
      [] userState.State = StateDefault -> Done(rec, "redispatch", NoReply)
      [] userState.State = StateCount -> Done(rec, "count_no_callback", NoReply)
      [] userState.State = StatePay ->
           IF ~rec.doc THEN Done(rec, "paid_no_document", NoReply)
           ELSE IF ~rec.pdf THEN Done(rec, "not_pdf", Reply("only_pdf"))
           ELSE [rec EXCEPT !.pc = "paid_guard"]
      [] userState.State = StateContact ->
           IF ~rec.contact THEN Done(rec, "no_contact", Reply("ask_contact"))
           ELSE [rec EXCEPT !.pc = "sc_get"]
      [] OTHER -> Done(rec, "welcome", Reply("welcome"))

\* the dispatch of DefaultHandler on userState.State, with the entry checks
\* of the stage handler it calls
Route(rec, userState) ==
    IF rec.doc /\ userState.State # StatePay /\ userState.State # StateContact
    THEN Done(rec, "document_ignored", NoReply)
    ELSE CASE userState.State = StateStart -> Done(rec, "start", Reply("promo"))
           [] userState.State = StateDefault -> Done(rec, "redispatch", NoReply)
           [] userState.State = StateCount -> Done(rec, "count_no_callback", NoReply)
           [] userState.State = StatePay ->
                IF ~rec.doc THEN Done(rec, "paid_no_document", NoReply)
                ELSE IF ~rec.pdf THEN Done(rec, "not_pdf", Reply("only_pdf"))
                ELSE [rec EXCEPT !.pc = "paid_guard"]
           [] userState.State = StateContact ->
                IF ~rec.contact THEN Done(rec, "no_contact", Reply("ask_contact"))
                ELSE [rec EXCEPT !.pc = "sc_get"]
           [] OTHER -> Done(rec, "welcome", Reply("welcome"))

\* DefaultHandler up to the read of getOrCreateUserState
DefaultHandler(w, u, upd) ==
    /\ Free(w)
    /\ nUpdates < MaxUpdates
    /\ nUpdates' = nUpdates + 1
    /\ LET rec == [IdleWorker EXCEPT !.user = u, !.doc = upd.doc, !.pdf = upd.pdf,
                                     !.contact = upd.contact, !.result = upd.result]
       IN \E ok \in Oks :
            /\ worker' = [worker EXCEPT ![w] =
                IF ~ok THEN Route([rec EXCEPT !.state = StartState], StartState)
                ELSE IF redis[u] = NilState
                     THEN [rec EXCEPT !.pc = "dh_save", !.state = StartState]
                     ELSE Route([rec EXCEPT !.state = redis[u]], redis[u])]
            /\ nFaults' = nFaults + Fault(ok)
    /\ UNCHANGED <<redis, loto, money, clients, orders>>
    /\ UNCHANGED wheelVars

\* getOrCreateUserState writes the default back, then the dispatch
GetOrCreateSave(w) ==
    /\ worker[w].pc = "dh_save"
    /\ \E ok \in Oks :
         /\ redis' = SaveUserState(redis, worker[w].user, StartState, ok)
         /\ nFaults' = nFaults + Fault(ok)
    /\ worker' = [worker EXCEPT ![w] = Route(worker[w], StartState)]
    /\ UNCHANGED <<loto, money, clients, orders, nUpdates>>
    /\ UNCHANGED wheelVars

\* ---------------------------------------------------------- PaidHandler
\* variant: a rejection puts the user back to the start of the funnel
Reject_ResetsState(w, outcome, reply) ==
    /\ worker' = [worker EXCEPT ![w] = Done(worker[w], outcome, reply)]
    /\ redis' = [redis EXCEPT ![worker[w].user] = StartState]
    /\ UNCHANGED <<loto, money, clients, orders>>

\* a handler returns after sending reply; no store is written on the way out
Reject(w, outcome, reply) ==
    /\ worker' = [worker EXCEPT ![w] = Done(worker[w], outcome, reply)]
    /\ UNCHANGED <<redis, loto, money, clients, orders>>

\* a run-time panic (index out of range, nil dereference) ends the execution
Panic(w, outcome) ==
    /\ worker' = [worker EXCEPT ![w] = Done(worker[w], outcome, NoReply)]
    /\ UNCHANGED <<redis, loto, money, clients, orders>>

\* variant: the length check lets only lists of six or more fields through
TooFewFields_WrongBound(result) == Len(result) < 6

\* "if len(result) < 4 { send the retry prompt; return }"
TooFewFields(result) == Len(result) < 4

\* variant: the already-used branch also drops the user's conversation state
AlreadyUsed_DeletesState(w) ==
    /\ worker' = [worker EXCEPT ![w] = Done(worker[w], "already_used", Reply("already_used"))]
    /\ redis' = [redis EXCEPT ![worker[w].user] = NilState]
    /\ UNCHANGED <<loto, money, clients, orders>>

\* "if ok { send the already-used message; return }"
AlreadyUsed(w) == Reject(w, "already_used", Reply("already_used"))

\* the key PaidHandler passes to IsUniqueQr: result[3]
GuardKey(result) == result[4]

\* download, ReadPDF, the length check and the uniqueness query
PaidGuard(w) ==
    /\ worker[w].pc = "paid_guard"
    /\ LET result == worker[w].result IN
       \E dlOk \in Oks, dbOk \in Oks :
         IF ~dlOk
         THEN Reject(w, "download_error", NoReply) /\ nFaults' = nFaults + 1
         ELSE IF TooFewFields(result)
         THEN Reject(w, "too_few_fields", Reply("retry_format")) /\ nFaults' = nFaults
         ELSE IF ~dbOk
         THEN Reject(w, "guard_error", NoReply) /\ nFaults' = nFaults + 1
         ELSE IF GuardRejects(IsUniqueQr(loto, GuardKey(result)))
         THEN AlreadyUsed(w) /\ nFaults' = nFaults
         ELSE /\ worker' = [worker EXCEPT ![w].pc = "paid_fields"]
              /\ nFaults' = nFaults
              /\ UNCHANGED <<redis, loto, money, clients, orders>>
    /\ UNCHANGED nUpdates
    /\ UNCHANGED wheelVars

\* the fields PaidHandler picks: price, identifier and issuer by layout
PdfPrice(result) == IF result[1] = SuccessMarker THEN result[2] ELSE result[3]
QrPdf(result) == IF result[1] = SuccessMarker THEN result[3] ELSE result[4]
BinOf(result) ==
    IF result[1] = SuccessMarker THEN ParsePrice(result[4]).val
    ELSE ParsePrice(result[5]).val

\* the message textPrice with the quantity keyboard
WrongAmountReply(predictedCount) ==
    [kind |-> "wrong_amount", predicted |-> predictedCount, keyboard |-> TRUE]

\* field selection, ParsePrice, the state read, the price check and Validator
PaidFields(w) ==
    /\ worker[w].pc = "paid_fields"
    /\ LET rec == worker[w]
           result == rec.result
       IN IF Len(result) < 5 THEN Panic(w, "index_panic") /\ nFaults' = nFaults
          ELSE LET parsed == ParsePrice(PdfPrice(result)) IN
            IF parsed.err
            THEN Reject(w, "bad_price", Reply("bad_pdf")) /\ nFaults' = nFaults
            ELSE \E ok \in Oks :
              /\ nFaults' = nFaults + Fault(ok)
              /\ IF ~ok THEN Reject(w, "state_read_error", NoReply)
                 ELSE LET state == redis[rec.user] IN
                   IF state = NilState THEN Panic(w, "nil_state_panic")
                   ELSE LET actualPrice == SnapPrice(Value(parsed.val))
                            totalPrice == TotalPrice(state.Count)
                            verdict == Validator(state.Count, actualPrice, BinOf(result))
                        IN IF PriceMismatch(totalPrice, actualPrice)
                           THEN Reject(w, "wrong_amount",
                                       WrongAmountReply(PredictedCount(actualPrice)))
                           ELSE IF verdict = "ErrWrongBin"
                           THEN Reject(w, "wrong_bin", Reply("wrong_bin"))
                           ELSE IF verdict = "ErrWrongPrice"
                           THEN Reject(w, "wrong_price", Reply("wrong_price"))
                           ELSE /\ worker' = [worker EXCEPT ![w] =
                                    [rec EXCEPT !.pc = "paid_save", !.state = state,
                                                !.qrPdf = QrPdf(result),
                                                !.bin = BinOf(result),
                                                !.actualPrice = actualPrice]]
                                /\ UNCHANGED <<redis, loto, money, clients, orders>>
    /\ UNCHANGED nUpdates
    /\ UNCHANGED wheelVars

\* state.IsPaid = true; state.State = StateContact; SaveUserState
PaidSaveState(w) ==
    /\ worker[w].pc = "paid_save"
    /\ LET state == [worker[w].state EXCEPT !.IsPaid = TRUE, !.State = StateContact] IN
         /\ \E ok \in Oks :
              /\ redis' = SaveUserState(redis, worker[w].user, state, ok)
              /\ nFaults' = nFaults + Fault(ok)
         /\ worker' = [worker EXCEPT ![w] = [@ EXCEPT !.pc = "paid_money", !.state = state]]
    /\ UNCHANGED <<loto, money, clients, orders, nUpdates>>
    /\ UNCHANGED wheelVars

\* the admin documents and the success message after the ticket loop
PaidFinish(rec) ==
    [Done(rec, "accepted", Reply("accepted")) EXCEPT !.admin = 2]

\* totalLoto := state.Count * 3
TotalLoto(count) == count * 3

\* IncreaseTotalSum(actualPrice); an error is only logged
PaidIncreaseTotalSum(w) ==
    /\ worker[w].pc = "paid_money"
    /\ \E ok \in Oks :
         /\ money' = IF ok THEN money + worker[w].actualPrice ELSE money
         /\ nFaults' = nFaults + Fault(ok)
    /\ worker' = [worker EXCEPT ![w] =
            IF TotalLoto(@.state.Count) > 0
            THEN [@ EXCEPT !.pc = "paid_insert", !.i = 0]
            ELSE PaidFinish(@)]
    /\ UNCHANGED <<redis, loto, clients, orders, nUpdates>>
    /\ UNCHANGED wheelVars

\* one round of the ticket loop: a random identifier and InsertLoto
PaidInsertLoto(w) ==
    /\ worker[w].pc = "paid_insert"
    /\ LET rec == worker[w] IN
       \E lotoId \in LotoIds, ok \in Oks :
         /\ nFaults' = nFaults + Fault(ok)
         /\ IF ~ok
            THEN /\ worker' = [worker EXCEPT ![w] = Done(rec, "insert_error", NoReply)]
                 /\ loto' = loto
            ELSE /\ loto' = InsertLoto(loto, LotoEntry(rec.user, lotoId, rec.qrPdf))
                 /\ worker' = [worker EXCEPT ![w] =
                       IF rec.i + 1 < TotalLoto(rec.state.Count)
                       THEN [rec EXCEPT !.i = rec.i + 1]
                       ELSE PaidFinish(rec)]
    /\ UNCHANGED <<redis, money, clients, orders, nUpdates>>
    /\ UNCHANGED wheelVars

\* ------------------------------------------ ShareContactCallbackHandler
\* GetUserState, with the fallback state on an error
ShareContactGet(w) ==
    /\ worker[w].pc = "sc_get"
    /\ \E ok \in Oks :
         LET state == IF ok THEN redis[worker[w].user] ELSE ContactFallbackState IN
         /\ worker' = [worker EXCEPT ![w] =
               [@ EXCEPT !.state = state,
                         !.pc = IF state # NilState THEN "sc_save" ELSE "sc_client"]]
         /\ nFaults' = nFaults + Fault(ok)
    /\ UNCHANGED <<redis, loto, money, clients, orders, nUpdates>>
    /\ UNCHANGED wheelVars

\* state.Contact = PhoneNumber; SaveUserState
ShareContactSave(w) ==
    /\ worker[w].pc = "sc_save"
    /\ LET state == [worker[w].state EXCEPT !.Contact = Phone] IN
         /\ \E ok \in Oks :
              /\ redis' = SaveUserState(redis, worker[w].user, state, ok)
              /\ nFaults' = nFaults + Fault(ok)
         /\ worker' = [worker EXCEPT ![w] = [@ EXCEPT !.pc = "sc_client", !.state = state]]
    /\ UNCHANGED <<loto, money, clients, orders, nUpdates>>
    /\ UNCHANGED wheelVars

\* INSERT OR REPLACE INTO client under UNIQUE(id_user)
InsertClient(rows, e) == {r \in rows : r.id_user # e.id_user} \cup {e}

\* IsClientUnique, the entries built from state, and InsertClient
ShareContactClient(w) ==
    /\ worker[w].pc = "sc_client"
    /\ LET rec == worker[w] IN
       \E chkOk \in Oks, ok \in Oks :
         IF ~chkOk
         THEN Reject(w, "client_check_error", NoReply) /\ nFaults' = nFaults + 1
         ELSE IF rec.state = NilState
         THEN Panic(w, "nil_state_panic") /\ nFaults' = nFaults
         ELSE /\ clients' = IF ok
                            THEN InsertClient(clients, [id_user |-> rec.user,
                                                        contact |-> rec.state.Contact])
                            ELSE clients
              /\ worker' = [worker EXCEPT ![w] =
                    [rec EXCEPT !.pc = "sc_order", !.admin = IF ok THEN 0 ELSE 1]]
              /\ nFaults' = nFaults + Fault(ok)
              /\ UNCHANGED <<redis, loto, money, orders>>
    /\ UNCHANGED nUpdates
    /\ UNCHANGED wheelVars

\* InsertOrder with Quantity: state.Count, then the confirmation message
ShareContactOrder(w) ==
    /\ worker[w].pc = "sc_order"
    /\ LET rec == worker[w] IN
       \E ok \in Oks :
         /\ orders' = IF ok
                      THEN Append(orders, OrderRow(lastOrderId + 1, rec.user,
                                                   rec.state.Count,
                                                   AssignSequence(lastSeq)))
                      ELSE orders
         /\ lastOrderId' = IF ok THEN lastOrderId + 1 ELSE lastOrderId
         /\ lastSeq' = IF ok THEN AssignSequence(lastSeq) ELSE lastSeq
         /\ worker' = [worker EXCEPT ![w] =
               [rec EXCEPT !.pc = "sc_delete", !.reply = Reply("contact_ok"),
                           !.admin = IF ok THEN rec.admin ELSE rec.admin + 1]]
         /\ nFaults' = nFaults + Fault(ok)
    /\ UNCHANGED <<redis, loto, money, clients, nUpdates, spin, call, scenario>>

\* DeleteUserState at the end of the funnel
ShareContactDelete(w) ==
    /\ worker[w].pc = "sc_delete"
    /\ \E ok \in Oks :
         /\ redis' = DeleteUserState(redis, worker[w].user, ok)
         /\ nFaults' = nFaults + Fault(ok)
    /\ worker' = [worker EXCEPT ![w] = Done(@, "completed", @.reply)]
    /\ UNCHANGED <<loto, money, clients, orders, nUpdates>>
    /\ UNCHANGED wheelVars

\* ------------------------------------------------------------ prize wheel
\* rows in reverse order
Reverse(rows) == [i \in 1..Len(rows) |-> rows[Len(rows) + 1 - i]]

\* OrderRepository.GetUnpaidOrdersByUser: the user's rows with checks = 0 and
\* quantity > 0, newest first; the column list has no gift, so Gift is ""
GetUnpaidOrdersByUser(rows, telegramID) ==
    LET Unpaid(r) == r.id_user = telegramID /\ ~r.checks /\ r.quantity > 0
        found == SelectSeq(Reverse(rows), Unpaid)
    IN [i \in 1..Len(found) |-> [found[i] EXCEPT !.gift = ""]]

\* the sum of the quantities of a list of "name: quantity" pairs
RECURSIVE SumQuantity(_)
SumQuantity(parfumes) ==
    IF parfumes = <<>> THEN 0
    ELSE Head(parfumes).qty + SumQuantity(Tail(parfumes))

\* OrderRepository.GetAvailableQuantityForUser: over the user's unpaid rows,
\* quantity minus the number of ':' in parfumes
RECURSIVE AvailableIn(_)
AvailableIn(found) ==
    IF found = <<>> THEN 0
    ELSE (Head(found).quantity - Len(Head(found).parfumes)) + AvailableIn(Tail(found))

GetAvailableQuantityForUser(rows, telegramID) ==
    AvailableIn(GetUnpaidOrdersByUser(rows, telegramID))

\* OrderRepository.UpdatePerfumeSelection: UPDATE orders SET parfumes WHERE id
UpdatePerfumeSelection(rows, orderID, parfumes) ==
    [i \in 1..Len(rows) |->
        IF rows[i].id = orderID THEN [rows[i] EXCEPT !.parfumes = parfumes]
        ELSE rows[i]]

\* the first row of found that satisfies the test of the caller, 0 for none
FirstId(found, hits) ==
    IF hits = {} THEN 0
    ELSE found[CHOOSE i \in hits : \A j \in hits : i <= j].id

\* selected_perfumes of a request: one perfume, of quantity 1 or 2
Selections == {<<[name |-> "rose", qty |-> 1]>>, <<[name |-> "rose", qty |-> 2]>>}

\* SavePerfumeSelection: the target order is the newest one with a temporary
\* selection, else the newest with quantity left; its parfumes are replaced
SavePerfumeSelection(u, selected) ==
    /\ nUpdates < MaxUpdates
    /\ nUpdates' = nUpdates + 1
    /\ \E ok \in Oks :
         /\ nFaults' = nFaults + Fault(ok)
         /\ LET found == GetUnpaidOrdersByUser(orders, u)
                temp == {i \in 1..Len(found) : found[i].parfumes # <<>>}
                previousTempQuantity ==
                    SumQuantity([i \in 1..Len(found) |->
                                   [qty |-> SumQuantity(found[i].parfumes)]])
                fresh == {i \in 1..Len(found) :
                            found[i].quantity - SumQuantity(found[i].parfumes) > 0}
                targetOrderID == IF temp # {} THEN FirstId(found, temp)
                                 ELSE FirstId(found, fresh)
                availableQuantity ==
                    IF previousTempQuantity > 0 THEN previousTempQuantity
                    ELSE GetAvailableQuantityForUser(orders, u)
            IN orders' = IF /\ ok
                            /\ SumQuantity(selected) <= availableQuantity
                            /\ targetOrderID # 0
                         THEN UpdatePerfumeSelection(orders, targetOrderID, selected)
                         ELSE orders
    /\ UNCHANGED <<redis, loto, money, clients, worker, lastOrderId, lastSeq, spin, call, scenario>>

\* OrderRepository.GetOrderSequenceNumber: the sequence number persistence
\* assigned to the order when it was created
GetOrderSequenceNumber(rows, orderID) ==
    rows[CHOOSE i \in 1..Len(rows) : rows[i].id = orderID].seq

\* OrderRepository.UpdateOrderPrize: the tier is stored on the order
UpdateOrderPrize(rows, orderID, prize) ==
    [i \in 1..Len(rows) |->
        IF rows[i].id = orderID THEN [rows[i] EXCEPT !.gift = prize]
        ELSE rows[i]]

SpinFree(w) == spin[w].pc \in {"idle", "done"}

\* SpinWheel returns; its locals stay in the response and the log line
SpinDone(rec, outcome) == [rec EXCEPT !.pc = "done", !.outcome = outcome]

\* SpinWheel up to the choice of the eligible order
SpinWheelGet(w, u) ==
    /\ SpinFree(w)
    /\ nUpdates < MaxUpdates
    /\ nUpdates' = nUpdates + 1
    /\ \E ok \in Oks :
         /\ nFaults' = nFaults + Fault(ok)
         /\ LET rec == [IdleSpin EXCEPT !.user = u]
                found == GetUnpaidOrdersByUser(orders, u)
                eligible == {i \in 1..Len(found) :
                               /\ found[i].parfumes # <<>>
                               /\ found[i].gift \in {"", "null"}}
            IN spin' = [spin EXCEPT ![w] =
                  IF ~ok THEN SpinDone(rec, "database_error")
                  ELSE IF eligible = {} THEN SpinDone(rec, "no_eligible_order")
                  ELSE [rec EXCEPT !.pc = "sequence",
                                   !.eligible = FirstId(found, eligible)]]
    /\ UNCHANGED <<redis, loto, money, clients, orders, worker, lastOrderId, lastSeq, call, scenario>>

\* GetOrderSequenceNumber with the fallback to the order id, DeterminePrize
SpinWheelSequence(w) ==
    /\ spin[w].pc = "sequence"
    /\ \E ok \in Oks :
         /\ nFaults' = nFaults + Fault(ok)
         /\ LET orderSequence ==
                    IF ok THEN GetOrderSequenceNumber(orders, spin[w].eligible)
                    ELSE spin[w].eligible
            IN spin' = [spin EXCEPT ![w] =
                  [@ EXCEPT !.pc = "update", !.orderSequence = orderSequence,
                            !.prizeWon = DeterminePrize(orderSequence)]]
    /\ UNCHANGED <<redis, loto, money, clients, orders, worker, nUpdates, lastOrderId,
                   lastSeq, call, scenario>>

\* UpdateOrderPrize and the response
SpinWheelUpdate(w) ==
    /\ spin[w].pc = "update"
    /\ \E ok \in Oks :
         /\ nFaults' = nFaults + Fault(ok)
         /\ orders' = IF ok
                      THEN UpdateOrderPrize(orders, spin[w].eligible, spin[w].prizeWon)
                      ELSE orders
         /\ spin' = [spin EXCEPT ![w] =
                SpinDone(@, IF ok THEN "prize_won" ELSE "save_error")]
    /\ UNCHANGED <<redis, loto, money, clients, worker, nUpdates, lastOrderId, lastSeq, call, scenario>>

\* OrderRepository.GetByID: the row with the id, <<>> for sql.ErrNoRows; the
\* column list has no gift, so Gift is ""
GetByID(rows, id) ==
    LET found == SelectSeq(rows, LAMBDA r : r.id = id)
    IN [i \in 1..Len(found) |-> [found[i] EXCEPT !.gift = ""]]

\* OrderRepository.UpdateClientInfoWithCoordinates: UPDATE orders SET fio,
\* contact, address WHERE id
UpdateClientInfoWithCoordinates(rows, orderID, contact) ==
    [i \in 1..Len(rows) |->
        IF rows[i].id = orderID THEN [rows[i] EXCEPT !.contact = contact]
        ELSE rows[i]]

\* OrderRepository.MarkOrderAsCompleted: the order is marked completed
MarkOrderAsCompleted(rows, orderID) ==
    [i \in 1..Len(rows) |->
        IF rows[i].id = orderID THEN [rows[i] EXCEPT !.checks = TRUE]
        ELSE rows[i]]

\* variant: the prize test lets every order through
NoPrizeAssigned_Never(order) == FALSE

\* "if order.Gift == "" || order.Gift == "null" { 400 }"
NoPrizeAssigned(order) == order.gift \in {"", "null"}

\* the order ids a request can name: those of the stored rows and one more
OrderIds == {orders[i].id : i \in 1..Len(orders)} \cup {lastOrderId + 1}

\* CompletePrizeOrder: form fields, GetByID, the owner and prize tests, then
\* the client info and the completion mark
CompletePrizeOrder(w, telegramID, orderID, filled) ==
    /\ SpinFree(w)
    /\ nUpdates < MaxUpdates
    /\ nUpdates' = nUpdates + 1
    /\ LET rec == [IdleSpin EXCEPT !.user = telegramID, !.eligible = orderID] IN
       IF ~filled
       THEN /\ spin' = [spin EXCEPT ![w] = SpinDone(rec, "fields_missing")]
            /\ UNCHANGED <<orders, nFaults>>
       ELSE \E ok \in Oks :
         LET found == GetByID(orders, orderID) IN
         IF ~ok \/ found = <<>>
         THEN /\ spin' = [spin EXCEPT ![w] = SpinDone(rec, "order_not_found")]
              /\ nFaults' = nFaults + Fault(ok)
              /\ orders' = orders
         ELSE IF found[1].id_user # telegramID
         THEN /\ spin' = [spin EXCEPT ![w] = SpinDone(rec, "forbidden")]
              /\ UNCHANGED <<orders, nFaults>>
         ELSE IF NoPrizeAssigned(found[1])
         THEN /\ spin' = [spin EXCEPT ![w] = SpinDone(rec, "no_prize")]
              /\ UNCHANGED <<orders, nFaults>>
         ELSE \E okInfo \in Oks, okMark \in Oks :
           IF ~okInfo
           THEN /\ spin' = [spin EXCEPT ![w] = SpinDone(rec, "save_error")]
                /\ nFaults' = nFaults + 1
                /\ orders' = orders
           ELSE /\ spin' = [spin EXCEPT ![w] = SpinDone(rec, "completed")]
                /\ nFaults' = nFaults + Fault(okMark)
                /\ orders' =
                     LET info == UpdateClientInfoWithCoordinates(orders, orderID, Phone)
                     IN IF okMark THEN MarkOrderAsCompleted(info, orderID) ELSE info
    /\ UNCHANGED <<redis, loto, money, clients, worker, lastOrderId, lastSeq, call, scenario>>

\* the values of sqlite_sequence and of the sequence counter before the two
\* orders of the modelled users: a fresh database, or one with orders of
\* other users, where the two counters may have drifted apart
SeqStarts == {<<0, 0>>, <<28, 28>>, <<28, 29>>}

\* the tickets of an accepted receipt of quantity 1
FunnelTickets(u, qr) ==
    {LotoEntry(u, id, qr) : id \in {LotoIdMin, LotoIdMin + 1, LotoIdMax}}

\* the tickets of a second accepted receipt of quantity 1
SecondTickets(u, qr) ==
    {LotoEntry(u, id, qr) : id \in {LotoIdMin + 2, LotoIdMin + 3, LotoIdMax - 1}}

\* the purchases user 1 has made after the first: none or one more
Repeats == {0, 1}

\* both users have gone through the funnel with quantity 1, user 1 possibly
\* a second time: tickets, money, client and order rows are stored and the
\* conversation state is deleted
InitWheel ==
    /\ redis = [u \in Users |-> NilState]
    /\ clients = {[id_user |-> u, contact |-> Phone] : u \in Users}
    /\ worker = [w \in Workers |-> IdleWorker]
    /\ nUpdates = 0
    /\ nFaults = 0
    /\ \E start \in SeqStarts, again \in Repeats :
         LET first == <<OrderRow(start[1] + 1, 1, 1, AssignSequence(start[2])),
                        OrderRow(start[1] + 2, 2, 1,
                                 AssignSequence(AssignSequence(start[2])))>>
             seq2 == AssignSequence(AssignSequence(start[2]))
         IN /\ orders = IF again = 0 THEN first
                        ELSE Append(first, OrderRow(start[1] + 3, 1, 1,
                                                    AssignSequence(seq2)))
            /\ lastOrderId = start[1] + 2 + again
            /\ lastSeq = IF again = 0 THEN seq2 ELSE AssignSequence(seq2)
            /\ loto = FunnelTickets(1, QrA) \cup FunnelTickets(2, QrB)
                         \cup (IF again = 0 THEN {} ELSE SecondTickets(1, QrC))
            /\ money = (2 + again) * Cost
    /\ spin = [w \in Workers |-> IdleSpin]
    /\ call = NoCall
    /\ scenario = NoScenario

NextWheel ==
    \/ \E u \in Users, selected \in Selections : SavePerfumeSelection(u, selected)
    \/ \E w \in Workers, u \in Users : SpinWheelGet(w, u)
    \/ \E w \in Workers : SpinWheelSequence(w)
    \/ \E w \in Workers : SpinWheelUpdate(w)
    \/ \E w \in Workers, u \in Users, id \in OrderIds, filled \in BOOLEAN :
         CompletePrizeOrder(w, u, id, filled)

SpecWheel == InitWheel /\ [][NextWheel]_vars

\* ------------------------------------------------ parsePythonListOutput
\* the white space strings.TrimSpace removes, as far as the inputs have it
Whitespace == {" ", "\n", "\t", "\r"}

RECURSIVE TrimLeft(_)
TrimLeft(s) ==
    IF s # <<>> /\ Head(s) \in Whitespace THEN TrimLeft(Tail(s)) ELSE s

RECURSIVE TrimRight(_)
TrimRight(s) ==
    IF s # <<>> /\ s[Len(s)] \in Whitespace
    THEN TrimRight(SubSeq(s, 1, Len(s) - 1)) ELSE s

\* strings.TrimSpace
TrimSpace(s) == TrimRight(TrimLeft(s))

\* strings.HasPrefix and strings.HasSuffix for a one-character affix
HasPrefix(s, c) == s # <<>> /\ Head(s) = c

HasSuffix(s, c) == s # <<>> /\ s[Len(s)] = c

\* strings.Split(s, "\n"): the pieces between the separators, empty ones included
RECURSIVE Split(_, _, _)
Split(s, sep, piece) ==
    IF s = <<>> THEN <<piece>>
    ELSE IF Head(s) = sep THEN <<piece>> \o Split(Tail(s), sep, <<>>)
    ELSE Split(Tail(s), sep, Append(piece, Head(s)))

\* for _, line := range lines: keep strings.TrimSpace(line) when not empty
RECURSIVE SplitLines(_)
SplitLines(lines) ==
    IF lines = <<>> THEN <<>>
    ELSE IF TrimSpace(Head(lines)) # <<>>
         THEN <<TrimSpace(Head(lines))>> \o SplitLines(Tail(lines))
         ELSE SplitLines(Tail(lines))

\* json.Unmarshal([]byte(output), &jsonResult) with jsonResult []string: the
\* text must be one JSON array of strings; any other text, and an array with
\* an element of another type, gives an error.  mode is the scanner's place.
JsonSpace == {" ", "\n", "\t", "\r"}

JsonError == [ok |-> FALSE, val |-> <<>>]

\* the character an escape \c stands for, "" when \c is no escape
JsonEscape(c) ==
    CASE c = "\"" -> "\""
      [] c = "\\" -> "\\"
      [] c = "/" -> "/"
      [] c = "n" -> "\n"
      [] c = "t" -> "\t"
      [] c = "r" -> "\r"
      [] OTHER -> ""

RECURSIVE JsonScan(_, _, _, _, _)
JsonScan(s, i, mode, cur, acc) ==
    IF i > Len(s) THEN [ok |-> mode = "end", val |-> acc]
    ELSE
      LET c == s[i] IN
      CASE mode = "begin" ->
             IF c \in JsonSpace THEN JsonScan(s, i + 1, "begin", cur, acc)
             ELSE IF c = "[" THEN JsonScan(s, i + 1, "first", cur, acc)
             ELSE JsonError
        [] mode = "first" ->
             IF c \in JsonSpace THEN JsonScan(s, i + 1, "first", cur, acc)
             ELSE IF c = "]" THEN JsonScan(s, i + 1, "end", cur, acc)
             ELSE IF c = "\"" THEN JsonScan(s, i + 1, "string", <<>>, acc)
             ELSE JsonError
        [] mode = "value" ->
             IF c \in JsonSpace THEN JsonScan(s, i + 1, "value", cur, acc)
             ELSE IF c = "\"" THEN JsonScan(s, i + 1, "string", <<>>, acc)
             ELSE JsonError
        [] mode = "string" ->
             IF c = "\"" THEN JsonScan(s, i + 1, "after", <<>>, Append(acc, cur))
             ELSE IF c = "\\" THEN JsonScan(s, i + 1, "escape", cur, acc)
             ELSE IF c \in {"\n", "\t", "\r"} THEN JsonError
             ELSE JsonScan(s, i + 1, "string", Append(cur, c), acc)
        [] mode = "escape" ->
             IF JsonEscape(c) # ""
             THEN JsonScan(s, i + 1, "string", Append(cur, JsonEscape(c)), acc)
             ELSE JsonError
        [] mode = "after" ->
             IF c \in JsonSpace THEN JsonScan(s, i + 1, "after", cur, acc)
             ELSE IF c = "," THEN JsonScan(s, i + 1, "value", cur, acc)
             ELSE IF c = "]" THEN JsonScan(s, i + 1, "end", cur, acc)
             ELSE JsonError
        [] OTHER ->
             IF c \in JsonSpace THEN JsonScan(s, i + 1, "end", cur, acc)
             ELSE JsonError

JsonUnmarshal(output) == JsonScan(output, 1, "begin", <<>>, <<>>)

\* item has a quote character of one kind at both ends
Surrounded(item) ==
    \/ HasPrefix(item, "'") /\ HasSuffix(item, "'")
    \/ HasPrefix(item, "\"") /\ HasSuffix(item, "\"")

\* the item := strings.TrimSpace(current.String()) block: an empty item is
\* skipped; item[1 : len(item)-1] on an item that is one quote character
\* long is the slice [1:0], a run-time panic
AppendItem(result, current) ==
    LET item == TrimSpace(current) IN
    IF item = <<>> THEN [fault |-> FALSE, lines |-> result]
    ELSE IF ~Surrounded(item) THEN [fault |-> FALSE, lines |-> Append(result, item)]
    ELSE IF Len(item) < 2 THEN [fault |-> TRUE, lines |-> <<>>]
    ELSE [fault |-> FALSE, lines |-> Append(result, SubSeq(item, 2, Len(item) - 1))]

\* the loop over content and the block after it
RECURSIVE ManualScan(_, _, _, _, _, _)
ManualScan(content, i, inQuotes, quoteChar, current, result) ==
    IF i > Len(content)
    THEN IF Len(current) > 0 THEN AppendItem(result, current)
         ELSE [fault |-> FALSE, lines |-> result]
    ELSE
      LET char == content[i] IN
      IF ~inQuotes /\ char \in {"'", "\""}
      THEN ManualScan(content, i + 1, TRUE, char, current, result)
      ELSE IF inQuotes /\ char = quoteChar
      THEN IF i > 1 /\ content[i - 1] # "\\"
           THEN ManualScan(content, i + 1, FALSE, "", current, result)
           ELSE ManualScan(content, i + 1, inQuotes, quoteChar,
                           Append(current, char), result)
      ELSE IF ~inQuotes /\ char = ","
      THEN LET r == AppendItem(result, current) IN
           IF r.fault THEN r
           ELSE ManualScan(content, i + 1, inQuotes, quoteChar, <<>>, r.lines)
      ELSE ManualScan(content, i + 1, inQuotes, quoteChar,
                      Append(current, char), result)

\* parsePythonListOutput(output): the lines, the error (always nil), and
\* fault for a run-time panic
parsePythonListOutput(raw) ==
    LET output == TrimSpace(raw) IN
    IF ~HasPrefix(output, "[") \/ ~HasSuffix(output, "]")
    THEN [err |-> FALSE, fault |-> FALSE, lines |-> SplitLines(Split(output, "\n", <<>>))]
    ELSE IF JsonUnmarshal(output).ok
    THEN [err |-> FALSE, fault |-> FALSE, lines |-> JsonUnmarshal(output).val]
    ELSE LET content == SubSeq(output, 2, Len(output) - 1) IN
         IF content = <<>> THEN [err |-> FALSE, fault |-> FALSE, lines |-> <<>>]
         ELSE LET r == ManualScan(content, 1, FALSE, "", <<>>, <<>>) IN
              [err |-> FALSE, fault |-> r.fault, lines |-> r.lines]

\* ------------------------------------------------------- pure functions
\* the characters input strings are built from: digits, a blank, a sign
RawAlphabet == {"0", "7", " ", "T"}

RECURSIVE RawsOfLen(_)
RawsOfLen(n) ==
    IF n = 0 THEN {<<>>}
    ELSE {<<c>> \o r : c \in RawAlphabet, r \in RawsOfLen(n - 1)}

\* digit strings at and beyond the int width
WideRaws ==
    { <<"9", "2", "2", "3", "3", "7", "2", "0", "3", "6", "8", "5", "4", "7", "7",
        "5", "8", "0", "7">>,
      <<"9", "2", "2", "3", "3", "7", "2", "0", "3", "6", "8", "5", "4", "7", "7",
        "5", "8", "0", "8">>,
      <<"1", "0", "0", "0", "0", "0", "0", "0", "0", "0", "0", "0", "0", "0", "0",
        "0", "0", "0", "0", "0">>,
      <<"0", "0", "9", "2", "2", "3", "3", "7", "2", "0", "3", "6", "8", "5", "4",
        "7", "7", "5", "8", "0", "7">> }

\* the strings ParsePrice is applied to
RawInputs ==
    UNION {RawsOfLen(n) : n \in 0..MaxRawLen}
      \cup WideRaws
      \cup {Amount18900, Amount94500, AmountNone, BinField, Bin2Field}

\* the characters the extractor's output is built from
OutputAlphabet == {"[", "]", "'", "\"", ",", "\\", " ", "\n", "a"}

RECURSIVE OutputsOfLen(_)
OutputsOfLen(n) ==
    IF n = 0 THEN {<<>>}
    ELSE {<<c>> \o r : c \in OutputAlphabet, r \in OutputsOfLen(n - 1)}

\* list elements: empty, plain, with a comma, with either quote character
Elements ==
    {<<>>, <<"a">>, <<"a", ",", "a">>, <<"a", "'", "a">>, <<"\"">>}

RECURSIVE ListsOfLen(_)
ListsOfLen(n) ==
    IF n = 0 THEN {<<>>}
    ELSE {<<e>> \o l : e \in Elements, l \in ListsOfLen(n - 1)}

\* an element between quotes q, its quote characters backslash-escaped
RECURSIVE Escaped(_, _)
Escaped(e, q) ==
    IF e = <<>> THEN <<>>
    ELSE (IF Head(e) = q THEN <<"\\", q>> ELSE <<Head(e)>>) \o Escaped(Tail(e), q)

RECURSIVE Rendered(_, _)
Rendered(elements, q) ==
    IF elements = <<>> THEN <<>>
    ELSE <<q>> \o Escaped(Head(elements), q) \o <<q>>
         \o (IF Tail(elements) # <<>> THEN <<",", " ">> ELSE <<>>)
         \o Rendered(Tail(elements), q)

\* the printed form of a list of strings: [q..q, q..q]
BracketList(elements, q) == <<"[">> \o Rendered(elements, q) \o <<"]">>

\* the outputs parsePythonListOutput is applied to: printed lists, with the
\* elements they print, and arbitrary short texts
ListInputs ==
    {[NoCall EXCEPT !.fn = "parsePythonListOutput", !.raw = BracketList(es, q),
                    !.elements = es, !.quote = q] :
        es \in UNION {ListsOfLen(n) : n \in 0..MaxListLen}, q \in {"'", "\""}}
      \cup {[NoCall EXCEPT !.fn = "parsePythonListOutput", !.raw = raw] :
               raw \in UNION {OutputsOfLen(n) : n \in 0..MaxOutputLen}}

\* the inputs of the pure functions: a sequence number or a string
InitPure ==
    /\ redis = [u \in Users |-> NilState]
    /\ loto = {}
    /\ money = 0
    /\ clients = {}
    /\ orders = <<>>
    /\ worker = [w \in Workers |-> IdleWorker]
    /\ nUpdates = 0
    /\ nFaults = 0
    /\ lastOrderId = 0
    /\ lastSeq = 0
    /\ spin = [w \in Workers |-> IdleSpin]
    /\ call \in {[NoCall EXCEPT !.fn = "DeterminePrize", !.n = n] : n \in 1..MaxSequence}
              \cup {[NoCall EXCEPT !.fn = "ParsePrice", !.raw = raw] : raw \in RawInputs}
              \cup ListInputs
    /\ scenario = NoScenario

\* prizeWon := h.DeterminePrize(orderSequence)
CallDeterminePrize ==
    /\ call.fn = "DeterminePrize" /\ ~call.done
    /\ call' = [call EXCEPT !.done = TRUE, !.prize = DeterminePrize(call.n)]
    /\ UNCHANGED <<redis, loto, money, clients, orders, worker, nUpdates, nFaults,
                   lastOrderId, lastSeq, spin, scenario>>

\* service.ParsePrice(raw)
CallParsePrice ==
    /\ call.fn = "ParsePrice" /\ ~call.done
    /\ call' = [call EXCEPT !.done = TRUE, !.parsed = ParsePrice(call.raw)]
    /\ UNCHANGED <<redis, loto, money, clients, orders, worker, nUpdates, nFaults,
                   lastOrderId, lastSeq, spin, scenario>>

\* lines, err := parsePythonListOutput(outputStr)
CallParsePythonListOutput ==
    /\ call.fn = "parsePythonListOutput" /\ ~call.done
    /\ call' = [call EXCEPT !.done = TRUE, !.list = parsePythonListOutput(call.raw)]
    /\ UNCHANGED <<redis, loto, money, clients, orders, worker, nUpdates, nFaults,
                   lastOrderId, lastSeq, spin, scenario>>

NextPure == CallDeterminePrize \/ CallParsePrice \/ CallParsePythonListOutput

SpecPure == InitPure /\ [][NextPure]_vars

\* ----------------------------------------------------------- specification
\* one message handler in flight at a time; callbacks and expiry interleave
Next ==
    \/ \E u \in Users : BuyParfumeHandler(u)
    \/ \E u \in Users, k \in Counts : CountHandler(u, k)
    \/ \E u \in Users : Expire(u)
    \/ \E u \in Users, upd \in MessageUpdates : DefaultHandler(1, u, upd)
    \/ GetOrCreateSave(1)
    \/ PaidGuard(1)
    \/ PaidFields(1)
    \/ PaidSaveState(1)
    \/ PaidIncreaseTotalSum(1)
    \/ PaidInsertLoto(1)
    \/ ShareContactGet(1)
    \/ ShareContactSave(1)
    \/ ShareContactClient(1)
    \/ ShareContactOrder(1)
    \/ ShareContactDelete(1)

Spec == Init /\ [][Next]_vars

\* two uploads in flight at once, of the plain-layout receipt with QR-A
RaceUpdates ==
    { [doc |-> TRUE, pdf |-> TRUE, contact |-> FALSE,
       result |-> <<Header, DateLine, Amount18900, QrA, BinField>>] }

NextRace ==
    \/ \E u \in Users : CountHandler(u, 1)
    \/ \E w \in Workers, u \in Users, upd \in RaceUpdates : DefaultHandler(w, u, upd)
    \/ \E w \in Workers : GetOrCreateSave(w)
    \/ \E w \in Workers : PaidGuard(w)
    \/ \E w \in Workers : PaidFields(w)
    \/ \E w \in Workers : PaidSaveState(w)
    \/ \E w \in Workers : PaidIncreaseTotalSum(w)
    \/ \E w \in Workers : PaidInsertLoto(w)

SpecRace == Init /\ [][NextRace]_vars

\* the funnel from purchase intent to contact, one user, no store failure:
\* a quantity and a receipt for it that is unused, of the amount quantity x
\* unit cost and from an allowed issuer
Scenarios ==
    { [count |-> 1, result |-> <<Header, DateLine, Amount18900, QrA, BinField>>],
      [count |-> 1, result |-> <<SuccessMarker, Amount18900, QrA, BinField, DateLine>>],
      [count |-> 1, result |-> <<Header, DateLine, Amount18900, QrB, Bin2Field>>],
      [count |-> 5, result |-> <<SuccessMarker, Amount94500, QrB, BinField>>] }

InitLive ==
    /\ redis = [u \in Users |-> NilState]
    /\ loto = {}
    /\ money = 0
    /\ clients = {}
    /\ orders = <<>>
    /\ worker = [w \in Workers |-> IdleWorker]
    /\ nUpdates = 0
    /\ nFaults = 0
    /\ lastOrderId = 0
    /\ lastSeq = 0
    /\ spin = [w \in Workers |-> IdleSpin]
    /\ call = NoCall
    /\ scenario \in Scenarios

\* the user's four interactions, each sent when the one before is handled
LiveBuy == nUpdates = 0 /\ BuyParfumeHandler(1) /\ nFaults' = nFaults

LiveCount == nUpdates = 1 /\ CountHandler(1, scenario.count) /\ nFaults' = nFaults

LiveUpload ==
    /\ nUpdates = 2
    /\ DefaultHandler(1, 1, [doc |-> TRUE, pdf |-> TRUE, contact |-> FALSE,
                             result |-> scenario.result])
    /\ nFaults' = nFaults

LiveContact ==
    /\ nUpdates = 3
    /\ DefaultHandler(1, 1, [doc |-> FALSE, pdf |-> FALSE, contact |-> TRUE,
                             result |-> <<>>])
    /\ nFaults' = nFaults

\* the steps of the handlers in flight, none of them with a store error
LivePaidGuard == PaidGuard(1) /\ nFaults' = nFaults

LivePaidFields == PaidFields(1) /\ nFaults' = nFaults

LivePaidSaveState == PaidSaveState(1) /\ nFaults' = nFaults

LivePaidIncreaseTotalSum == PaidIncreaseTotalSum(1) /\ nFaults' = nFaults

LivePaidInsertLoto == PaidInsertLoto(1) /\ nFaults' = nFaults

LiveShareContactGet == ShareContactGet(1) /\ nFaults' = nFaults

LiveShareContactSave == ShareContactSave(1) /\ nFaults' = nFaults

LiveShareContactClient == ShareContactClient(1) /\ nFaults' = nFaults

LiveShareContactOrder == ShareContactOrder(1) /\ nFaults' = nFaults

LiveShareContactDelete == ShareContactDelete(1) /\ nFaults' = nFaults

NextLive ==
    \/ LiveBuy
    \/ LiveCount
    \/ LiveUpload
    \/ LiveContact
    \/ LivePaidGuard
    \/ LivePaidFields
    \/ LivePaidSaveState
    \/ LivePaidIncreaseTotalSum
    \/ LivePaidInsertLoto
    \/ LiveShareContactGet
    \/ LiveShareContactSave
    \/ LiveShareContactClient
    \/ LiveShareContactOrder
    \/ LiveShareContactDelete

\* every update is handled to its end: the bot runs each handler to completion
SpecLive == InitLive /\ [][NextLive]_vars /\ WF_vars(NextLive)

\* ------------------------------------------------------------ properties
\* some ticket in table loto carries identifier qr
StoredFor(qr) == \E r \in loto : r.qr = qr

\* worker w takes the step that starts at pc
StepAt(w, pc) == worker[w].pc = pc /\ worker'[w] # worker[w]

\* the rows of rows that belong to userId and carry qr
TicketsOf(rows, userId, qr) == {r \in rows : r.id_user = userId /\ r.qr = qr}

\* C1: once tickets are stored for a receipt identifier, an upload that
\* carries this identifier (in either layout, from any user) does not pass the
\* uniqueness guard: it ends as already used, or on a download or query error.
C1_OneTimeUse ==
    [][\A w \in Workers :
         (/\ StepAt(w, "paid_guard")
          /\ Len(worker[w].result) >= 4
          /\ StoredFor(QrPdf(worker[w].result)))
         => worker'[w].outcome \in {"already_used", "download_error", "guard_error"}]_vars

Minting(w) == worker[w].pc \in {"paid_save", "paid_money", "paid_insert"}

\* C3: of two PaidHandler executions in flight with the same receipt
\* identifier, at most one is accepted.
C3_AtMostOneAccepted ==
    \A w1 \in Workers, w2 \in Workers :
        (w1 # w2 /\ Minting(w1) /\ Minting(w2))
        => worker[w1].qrPdf # worker[w2].qrPdf

\* C4: when PaidHandler finishes an accepted receipt of quantity q, table loto
\* holds exactly 3q rows for that user and receipt identifier.
C4_TicketCount ==
    [][\A w \in Workers :
         (StepAt(w, "paid_insert") /\ worker'[w].outcome = "accepted")
         => Cardinality(TicketsOf(loto', worker[w].user, worker[w].qrPdf))
              = 3 * worker[w].state.Count]_vars

\* the field list of the end-to-end example
EndToEndReceipt == <<SuccessMarker, Amount94500, QrB, BinField>>

\* C5: with quantity 5 stored and an unused QR, the upload of the 4-element
\* list [marker, "94,500 T", QR, issuer] passes every check and is accepted.
C5_EndToEnd ==
    [][\A w \in Workers :
         (/\ StepAt(w, "paid_fields")
          /\ worker[w].result = EndToEndReceipt
          /\ redis[worker[w].user] = CountNewState(5)
          /\ ~StoredFor(QrB)
          /\ nFaults' = nFaults)
         => worker'[w].pc = "paid_save"]_vars

ValidationFailures ==
    {"too_few_fields", "bad_price", "wrong_amount", "wrong_bin", "wrong_price",
     "already_used"}

\* C6: the step in which PaidHandler rejects an upload for a validation reason
\* writes no store: the user's state, the tickets and the money total are as
\* before, and a state in stage state_pay is still unpaid.
C6_FailedValidationKeepsState ==
    [][\A w \in Workers :
         (worker'[w] # worker[w] /\ worker'[w].outcome \in ValidationFailures)
         => /\ worker[w].pc \in {"paid_guard", "paid_fields"}
            /\ redis' = redis /\ loto' = loto /\ money' = money
            /\ redis'[worker[w].user].State = StatePay
                 => ~redis'[worker[w].user].IsPaid]_vars

C6_Witness ==
    \E w \in Workers :
        /\ worker[w].outcome = "wrong_bin"
        /\ redis[worker[w].user] = CountNewState(5)
        /\ loto = {}

\* C7: a CountHandler run on count_k whose write reaches the store leaves
\* (state_pay, k, unpaid) as the user's state, and an upload is accepted only
\* for an amount of the stored quantity times the unit cost.
C7_QuantitySelection ==
    [][/\ \A u \in Users, k \in Counts :
            (CountHandler(u, k) /\ nFaults' = nFaults)
            => /\ redis'[u].State = StatePay
               /\ redis'[u].Count = k
               /\ redis'[u].IsPaid = FALSE
       /\ \A w \in Workers :
            (StepAt(w, "paid_fields") /\ worker'[w].pc = "paid_save")
            => worker'[w].actualPrice = redis[worker[w].user].Count * Cost]_vars

C7_Witness ==
    \E u \in Users :
        redis[u].State = StatePay /\ redis[u].Count = 5 /\ ~redis[u].IsPaid

\* worker w reads the state of its user from the store in this step
ReadsState(w) ==
    \/ worker[w].pc \in {"idle", "done"} /\ worker'[w] # worker[w]
    \/ /\ StepAt(w, "paid_fields")
       /\ Len(worker[w].result) >= 5
       /\ ~ParsePrice(PdfPrice(worker[w].result)).err
    \/ StepAt(w, "sc_get")

\* C8: a handler that finds the state key missing goes on with the default
\* (state_start, 0, unpaid) and does not fault.
C8_MissingStateDefaultsToStart ==
    [][\A w \in Workers :
         (/\ ReadsState(w)
          /\ nFaults' = nFaults
          /\ redis[worker'[w].user] = NilState)
         => /\ worker'[w].outcome # "nil_state_panic"
            /\ worker'[w].pc # "done" => worker'[w].state = StartState]_vars

\* C9: a handler whose read of the state store fails still answers the user
\* (a document in stage state_start gets no answer by design).
C9_DegradedRead ==
    [][\A w \in Workers :
         (ReadsState(w) /\ nFaults' = nFaults + 1)
         => \/ worker'[w].pc # "done"
            \/ worker'[w].reply.kind # "none"
            \/ worker'[w].outcome = "document_ignored"]_vars

\* C10: with normalized amount a and stored quantity q, PaidHandler rejects
\* with the wrong-amount message, predicted quantity a div unit cost and the
\* keyboard, exactly when a # q * unit cost; nothing is written.  50000 against
\* quantity 5 gives predicted quantity 2; 94500 passes.
C10_WrongPrice ==
    [][\A w \in Workers :
         (/\ ReadsState(w)
          /\ worker[w].pc = "paid_fields"
          /\ nFaults' = nFaults
          /\ redis[worker[w].user] # NilState)
         => LET a == SnapPrice(Value(ParsePrice(PdfPrice(worker[w].result)).val))
                q == redis[worker[w].user].Count
            IN /\ a # q * Cost =>
                    /\ worker'[w].outcome = "wrong_amount"
                    /\ worker'[w].reply =
                         [kind |-> "wrong_amount", predicted |-> a \div Cost,
                          keyboard |-> TRUE]
                    /\ redis' = redis /\ loto' = loto /\ money' = money
               /\ a = q * Cost => worker'[w].outcome # "wrong_amount"
               /\ (q = 5 /\ PdfPrice(worker[w].result) = Amount50000)
                    => worker'[w].reply.predicted = 2
               /\ (q = 5 /\ PdfPrice(worker[w].result) = Amount94500)
                    => worker'[w].reply.kind # "wrong_amount"]_vars

C10_Witness ==
    \E w \in Workers :
        /\ worker[w].outcome = "wrong_amount"
        /\ worker[w].reply = [kind |-> "wrong_amount", predicted |-> 2, keyboard |-> TRUE]
        /\ redis[worker[w].user].Count = 5

\* the issuer identifiers config.NewConfig allows
AllowedBins == {Bin, Bin2, Bin3, Bin4, Bin5}

\* the amount PaidHandler compares, for the field list of worker w
AmountOf(w) == SnapPrice(Value(ParsePrice(PdfPrice(worker[w].result)).val))

\* worker w runs field selection up to the checks, on a state it could read
ChecksFields(w) ==
    /\ ReadsState(w)
    /\ worker[w].pc = "paid_fields"
    /\ nFaults' = nFaults
    /\ redis[worker[w].user] # NilState

\* C11: an amount inside the snapping band is replaced by the expected price
\* before the comparison: with unit cost 18900 and quantity 5 stored, an amount
\* in 94900..94999 (such as 94999) passes the price check.
C11_PriceSnapping ==
    [][\A w \in Workers :
         (/\ ChecksFields(w)
          /\ redis[worker[w].user].Count = 5
          /\ Value(ParsePrice(PdfPrice(worker[w].result)).val) \in 94900..94999)
         => worker'[w].outcome # "wrong_amount"]_vars

\* C12: an upload reaches acceptance only if the digits of its issuer field
\* are one of the five configured identifiers; with a matching amount and an
\* issuer outside the list it is rejected with the unsupported-issuer message
\* and no store is written (no ticket, the state as it was).
C12_IssuerAllowList ==
    [][\A w \in Workers :
         ChecksFields(w)
         => LET allowed == BinOf(worker[w].result) \in AllowedBins
                matches == AmountOf(w) = redis[worker[w].user].Count * Cost
            IN /\ (matches /\ ~allowed) =>
                    /\ worker'[w].outcome = "wrong_bin"
                    /\ worker'[w].reply = Reply("wrong_bin")
                    /\ redis' = redis /\ loto' = loto /\ money' = money
               /\ worker'[w].pc = "paid_save" => allowed
               /\ worker'[w].outcome = "wrong_bin" => ~allowed]_vars

C12_Witness ==
    \E w \in Workers :
        /\ worker[w].outcome = "wrong_bin"
        /\ worker[w].reply = Reply("wrong_bin")
        /\ redis[worker[w].user].State = StatePay

\* C17: the step in which the uniqueness guard rejects an upload, and the
\* step of DefaultHandler that handed the upload to PaidHandler, leave the
\* user's stored state, the ticket table and the money total as they were.
C17_AlreadyUsedMutatesNothing ==
    [][\A w \in Workers :
         /\ (StepAt(w, "paid_guard") /\ worker'[w].outcome = "already_used")
            => /\ worker'[w].reply = Reply("already_used")
               /\ redis' = redis /\ loto' = loto /\ money' = money
         /\ (Free(w) /\ worker'[w].pc = "paid_guard")
            => (redis' = redis /\ loto' = loto /\ money' = money)]_vars

C17_Witness ==
    \E w \in Workers :
        /\ worker[w].outcome = "already_used"
        /\ redis[worker[w].user].State = StatePay
        /\ money > 0

\* C18: when the download succeeds, PaidHandler answers with the retry prompt
\* exactly when the extracted list has fewer than 4 fields (the empty list of
\* a failed extraction included); it then stops without a guard query and
\* without writing the tickets, the money total or the state.
C18_TooFewFields ==
    [][\A w \in Workers :
         StepAt(w, "paid_guard")
         => /\ Len(worker[w].result) < 4 =>
                 /\ worker'[w].outcome \in {"too_few_fields", "download_error"}
                 /\ worker'[w].pc = "done"
                 /\ redis' = redis /\ loto' = loto /\ money' = money
            /\ (Len(worker[w].result) < 4 /\ nFaults' = nFaults) =>
                 /\ worker'[w].outcome = "too_few_fields"
                 /\ worker'[w].reply = Reply("retry_format")
            /\ worker'[w].outcome = "too_few_fields" => Len(worker[w].result) < 4]_vars

C18_Witness ==
    \E w \in Workers :
        /\ worker[w].outcome = "too_few_fields"
        /\ worker[w].reply = Reply("retry_format")

\* the stage of a stored state; a missing key counts as the start stage
Stage(state) == IF state = NilState THEN StateStart ELSE state.State

\* C20: a document message that arrives while the user's stage is state_start
\* (or the key is missing) or state_count is dropped without an answer: no
\* receipt processing starts, no ticket or money is written, and the stage
\* stays what it was.
C20_OutOfBandDocument ==
    [][\A w \in Workers :
         /\ \A u \in Users, upd \in MessageUpdates :
              (/\ Free(w) /\ worker'[w] # worker[w]
               /\ upd.doc
               /\ redis[u] # NilState
               /\ redis[u].State \in {StateStart, StateCount}
               /\ DefaultHandler(w, u, upd))
              => /\ worker'[w].outcome = "document_ignored"
                 /\ worker'[w].reply = NoReply
                 /\ redis' = redis /\ loto' = loto /\ money' = money
         /\ (/\ StepAt(w, "dh_save")
             /\ worker[w].doc
             /\ redis[worker[w].user] = NilState)
            => /\ worker'[w].outcome = "document_ignored"
               /\ worker'[w].reply = NoReply
               /\ Stage(redis'[worker[w].user]) = StateStart
               /\ loto' = loto /\ money' = money]_vars

C20_Witness ==
    \E w \in Workers :
        /\ worker[w].outcome = "document_ignored"
        /\ redis[worker[w].user].State = StateCount

\* the prize rule as the claim states it, by priority
PrizeRule(n) ==
    IF n % 200 = 0 THEN PrizeMoney
    ELSE IF n % 100 = 0 THEN PrizeDiamond
    ELSE IF n \in {50, 150, 250, 350, 450, 550, 650, 750, 850, 950} THEN PrizeDiamond
    ELSE IF n % 30 = 0 THEN Prize30ML
    ELSE Prize10ML

\* C13: for every sequence number n >= 1, DeterminePrize(n) is money if
\* n mod 200 = 0, else diamond if n mod 100 = 0, else diamond if n is one of
\* 50, 150, ..., 950, else 30ml if n mod 30 = 0, else 10ml; 200 gives money,
\* 100 and 50 diamond, 30 gives 30ml, 17 gives 10ml, and 600, 300, 150 get
\* the tier of the first rule they match.
C13_PrizeFunction ==
    (call.fn = "DeterminePrize" /\ call.done)
    => /\ call.prize = PrizeRule(call.n)
       /\ call.n \in {200, 600} => call.prize = PrizeMoney
       /\ call.n \in {100, 300, 50, 150} => call.prize = PrizeDiamond
       /\ call.n = 30 => call.prize = Prize30ML
       /\ call.n = 17 => call.prize = Prize10ML

C13_Witness ==
    call.fn = "DeterminePrize" /\ call.done /\ call.n = 150 /\ call.prize = PrizeDiamond

\* the first sequence numbers, over which the rates are stated
RateWindow == 1000

\* the positions among the first RateWindow that get tier
PrizePositions(tier) == {n \in 1..RateWindow : DeterminePrize(n) = tier}

\* C14: among the sequence numbers 1..1000 DeterminePrize gives money to
\* exactly 5 and diamond to exactly 10.
C14_PrizeRates ==
    (call.fn = "DeterminePrize" /\ call.done)
    => /\ Cardinality(PrizePositions(PrizeMoney)) = 5
       /\ Cardinality(PrizePositions(PrizeDiamond)) = 10

\* the digit characters of raw as numbers, in order, read one by one
RECURSIVE DigitsOf(_)
DigitsOf(raw) ==
    IF raw = <<>> THEN <<>>
    ELSE IF Head(raw) \in DigitChars
         THEN <<DigitVal(Head(raw))>> \o DigitsOf(Tail(raw))
         ELSE DigitsOf(Tail(raw))

\* C19 as stated: for any input string ParsePrice returns the integer whose
\* decimal digits are the digit characters of the input in order, and an
\* error when the input holds no digit.
C19_ParsePrice ==
    (call.fn = "ParsePrice" /\ call.done)
    => LET ds == DigitsOf(call.raw) IN
       /\ ds = <<>> => call.parsed.err
       /\ ds # <<>> => /\ ~call.parsed.err
                       /\ call.parsed.val = StripLeadingZeros(ds)

\* C19 amended: the same for every input whose digits denote a number within
\* the int width (at most 9223372036854775807); for a larger number ParsePrice
\* returns an error, as it does for an input without a digit.
C19_ParsePriceInRange ==
    (call.fn = "ParsePrice" /\ call.done)
    => LET ds == DigitsOf(call.raw)
           wide == \/ Len(StripLeadingZeros(ds)) > 19
                   \/ /\ Len(StripLeadingZeros(ds)) = 19
                      /\ DecGreater(StripLeadingZeros(ds), MaxInt)
       IN /\ ds = <<>> => call.parsed.err
          /\ (ds # <<>> /\ ~wide) => /\ ~call.parsed.err
                                     /\ call.parsed.val = StripLeadingZeros(ds)
          /\ (ds # <<>> /\ wide) => call.parsed.err

C19_Witness ==
    /\ call.fn = "ParsePrice" /\ call.done
    /\ call.raw = Bin2Field
    /\ ~call.parsed.err
    /\ call.parsed.val = Bin2

\* C15: once a prize tier is stored on an order, no step changes it: a later
\* SpinWheel call, with or without the fallback to the order id, leaves the
\* stored tier as it is.
C15_PrizeWrittenOnce ==
    [][\A i \in 1..Len(orders) :
         orders[i].gift # "" => orders'[i].gift = orders[i].gift]_vars

\* a SpinWheel execution that has passed a number to DeterminePrize
Drawn(w) == spin[w].pc = "update" \/ spin[w].outcome \in {"prize_won", "save_error"}

\* C16: the numbers SpinWheel passes to DeterminePrize for two different
\* orders differ, whether they come from the sequence lookup or from the
\* fallback to the order id.
C16_SequenceNeverReused ==
    \A w1 \in Workers, w2 \in Workers :
        (Drawn(w1) /\ Drawn(w2) /\ spin[w1].eligible # spin[w2].eligible)
        => spin[w1].orderSequence # spin[w2].orderSequence

\* C21: when a user in stage state_contact supplies a contact and no store
\* call fails, the order that is written carries the quantity of the state and
\* the supplied contact, a client row with the contact exists, and the state
\* key is deleted when the handler ends.
C21_FunnelCompletion ==
    [][\A w \in Workers :
         /\ (StepAt(w, "sc_order") /\ nFaults' = 0)
            => /\ Len(orders') = Len(orders) + 1
               /\ orders'[Len(orders')].id_user = worker[w].user
               /\ orders'[Len(orders')].quantity = worker[w].state.Count
               /\ orders'[Len(orders')].contact = Phone
               /\ \E c \in clients : c.id_user = worker[w].user /\ c.contact = Phone
         /\ (StepAt(w, "sc_delete") /\ nFaults' = 0)
            => redis'[worker[w].user] = NilState]_vars

\* C22: when the write of a ticket or of an order fails, an admin
\* notification is sent for the failure and the user still gets the
\* acknowledgment of the interaction.
C22_WriteFailureIsReported ==
    [][\A w \in Workers :
         ((StepAt(w, "paid_insert") \/ StepAt(w, "sc_order")) /\ nFaults' = nFaults + 1)
         => /\ worker'[w].admin > worker[w].admin
            /\ worker'[w].reply # NoReply]_vars

\* C25: while a PaidHandler execution has not finished the ticket loop of its
\* receipt, or has left it on an insert error, the stored state of its user
\* is not the paid state of stage state_contact.
C25_StateAfterTickets ==
    \A w \in Workers :
        (worker[w].pc \in {"paid_money", "paid_insert"} \/ worker[w].outcome = "insert_error")
        => ~(/\ redis[worker[w].user].State = StateContact
             /\ redis[worker[w].user].IsPaid)

\* C26: with the success marker in field 0 the amount, identifier and issuer
\* are fields 1, 2, 3, otherwise fields 2, 3, 4; for a list of 4 or more
\* fields PaidHandler reads no index beyond the list.
C26_FieldPositions ==
    [][\A w \in Workers :
         (StepAt(w, "paid_fields") /\ Len(worker[w].result) >= 4)
         => /\ worker'[w].outcome # "index_panic"
            /\ worker'[w].pc = "paid_save" =>
                 LET result == worker[w].result
                     shift == IF result[1] = SuccessMarker THEN 0 ELSE 1
                 IN /\ worker'[w].actualPrice
                         = SnapPrice(Value(ParsePrice(result[2 + shift]).val))
                    /\ worker'[w].qrPdf = result[3 + shift]
                    /\ worker'[w].bin = ParsePrice(result[4 + shift]).val]_vars

\* C27: every ticket PaidHandler writes has an identifier in
\* 10000000..99999999, the id of the uploading user, the identifier of the
\* accepted receipt, and checks = false.
C27_TicketShape ==
    [][\A w \in Workers :
         StepAt(w, "paid_insert")
         => \A r \in loto' \ loto :
              /\ r.id_loto >= 10000000 /\ r.id_loto <= 99999999
              /\ r.id_user = worker[w].user
              /\ r.qr = QrPdf(worker[w].result)
              /\ r.checks = FALSE]_vars

C27_Witness ==
    \E r \in loto : r.id_loto = LotoIdMax /\ r.id_user = 2 /\ r.qr = QrB

\* C28: in both layouts the key PaidHandler passes to the uniqueness query
\* is the identifier it stores in column qr of the tickets it writes.
C28_GuardKeyIsStoredKey ==
    [][\A w \in Workers :
         StepAt(w, "paid_insert")
         => \A r \in loto' \ loto : r.qr = GuardKey(worker[w].result)]_vars

\* C29: the quantity ShareContactCallbackHandler writes to the order is the
\* quantity of the paid state the contact message was dispatched on, also
\* when a callback of the user comes in between or the state read fails.
C29_OrderQuantityIsPaidQuantity ==
    [][\A w \in Workers :
         /\ (StepAt(w, "sc_get") /\ worker[w].state.IsPaid)
            => worker'[w].state.Count = worker[w].state.Count
         /\ (StepAt(w, "sc_order") /\ Len(orders') > Len(orders))
            => orders'[Len(orders')].quantity = worker[w].state.Count]_vars

\* C30: a stored state with isPaid = true is never replaced by an unpaid
\* state; it only goes away when the key is deleted.
C30_PaidStatusNotLost ==
    [][\A u \in Users :
         redis[u].IsPaid => (redis'[u].IsPaid \/ redis'[u] = NilState)]_vars

\* the lines of a text, the pieces between its newline characters
RECURSIVE LinesOf(_)
LinesOf(s) ==
    IF \A i \in 1..Len(s) : s[i] # "\n" THEN <<s>>
    ELSE LET k == CHOOSE i \in 1..Len(s) :
                    s[i] = "\n" /\ \A j \in (i + 1)..Len(s) : s[j] # "\n"
         IN LinesOf(SubSeq(s, 1, k - 1)) \o <<SubSeq(s, k + 1, Len(s))>>

\* a text from its first to its last character that is not white space
Trimmed(s) ==
    LET ns == {i \in 1..Len(s) : s[i] \notin {" ", "\n", "\t", "\r"}} IN
    IF ns = {} THEN <<>>
    ELSE SubSeq(s, CHOOSE i \in ns : \A j \in ns : i <= j,
                   CHOOSE i \in ns : \A j \in ns : i >= j)

TrimmedLines(s) ==
    LET ls == LinesOf(s) IN
    SelectSeq([i \in 1..Len(ls) |-> Trimmed(ls[i])], LAMBDA l : l # <<>>)

Bracketed(s) ==
    /\ Trimmed(s) # <<>>
    /\ Trimmed(s)[1] = "["
    /\ Trimmed(s)[Len(Trimmed(s))] = "]"

\* C23: for a printed bracket list of quoted elements, which may hold commas
\* and backslash-escaped quote characters, parsePythonListOutput returns the
\* elements in order, one line per element, without the surrounding quotes.
C23_BracketListParsing ==
    (call.fn = "parsePythonListOutput" /\ call.done /\ call.quote # "")
    => /\ ~call.list.fault
       /\ Len(call.list.lines) = Len(call.elements)
       /\ call.list.lines = call.elements

\* C24: parsePythonListOutput returns no error and does not fault on any
\* input; for an input not enclosed in [ ] it returns the trimmed non-empty
\* lines of the input in order.
C24_ExtractorRobustness ==
    (call.fn = "parsePythonListOutput" /\ call.done)
    => /\ ~call.list.err
       /\ ~call.list.fault
       /\ ~Bracketed(call.raw) => call.list.lines = TrimmedLines(call.raw)

\* the amount ParsePrice reads from the receipt of w, before the band is applied
ParsedAmount(w) == Value(ParsePrice(PdfPrice(worker[w].result)).val)

C32_SelectionWithinOrder ==
    \A i \in 1..Len(orders) :
        SumQuantity(orders[i].parfumes) <= orders[i].quantity

\* order i gets client info or the completion mark in this step
Completes(i) ==
    /\ i \in 1..Len(orders)
    /\ orders'[i].id = orders[i].id
    /\ \/ orders'[i].checks /\ ~orders[i].checks
       \/ orders'[i].contact # orders[i].contact

StoredStages == {"nil", StateStart, StateCount, StatePay, StateContact}

\* the steps of worker w that are the dispatch of DefaultHandler
Dispatches(w) ==
    /\ worker[w].pc \in {"idle", "done", "dh_save"}
    /\ worker'[w] # worker[w]

\* C34: no handler stores the stage state_default, so the dispatch of
\* DefaultHandler never takes its self-dispatch branch: it returns, or hands
\* the update to exactly one stage handler.
C34_DispatchTerminates ==
    /\ [](\A u \in Users : redis[u].State \in StoredStages)
    /\ [][\A w \in Workers :
           Dispatches(w)
           => /\ worker'[w].outcome # "redispatch"
              /\ worker'[w].pc \in {"done", "dh_save", "paid_guard", "sc_get"}
              /\ worker'[w].pc = "dh_save" => worker[w].pc # "dh_save"]_vars

C34_Witness ==
    \E w \in Workers :
        /\ worker[w].pc = "sc_get"
        /\ redis[worker[w].user].State = StateContact

\* the scenario has ended well: 3q tickets of the receipt, an order of
\* quantity q, and no state key
FunnelDone ==
    /\ Cardinality(TicketsOf(loto, 1, QrPdf(scenario.result))) = 3 * scenario.count
    /\ \E i \in 1..Len(orders) :
         orders[i].id_user = 1 /\ orders[i].quantity = scenario.count
    /\ redis[1] = NilState

\* C35: with no store failure and every update handled, the user who sends
\* the purchase callback, chooses quantity q, uploads a valid unused receipt
\* for q x unit cost and shares a contact eventually has 3q tickets, an order
\* of quantity q and no state key.
C35_FunnelLiveness == <>FunnelDone

====
